---- MODULE Spec2Model ----
(***************************************************************************)
(* Model of saa-forta: the comorbidity resolver (comorbidities.py) and the *)
(* FORTA medication classification (forta.py).                             *)
(*                                                                         *)
(* Python values are tagged records [t |-> tag, v |-> payload]; Python     *)
(* strings are sequences of one-character strings, so that strip(),        *)
(* lower(), startswith(), slicing, int(), str() and ', '.join() are        *)
(* computed character by character.  An exception leaving a function is    *)
(* the outcome Raise(<class name>).                                        *)
(***************************************************************************)
EXTENDS Integers, Sequences, FiniteSets, TLC

VARIABLES pc, sample, key, sentinel, cast, ret,
          comorbidity_mapping, comorbidities, max_number, comorbidity_dict,
          forta_mapping, forta_indications, forta_database,
          medication, forta_exact, forta_complete

vars == <<pc, sample, key, sentinel, cast, ret,
          comorbidity_mapping, comorbidities, max_number, comorbidity_dict,
          forta_mapping, forta_indications, forta_database,
          medication, forta_exact, forta_complete>>

-----------------------------------------------------------------------------
(* Python values *)

PyNone == [t |-> "none", v |-> 0]
PyBool(b) == [t |-> "bool", v |-> b]
PyInt(n) == [t |-> "int", v |-> n]
\* a finite float, held as a number of halves: PyFloat(5) is 2.5
PyFloat(h) == [t |-> "float", v |-> h]
PyInf == [t |-> "inf", v |-> 0]
PyNan == [t |-> "nan", v |-> 0]
PyStr(s) == [t |-> "str", v |-> s]
PyList(l) == [t |-> "list", v |-> l]
Raise(exc) == [t |-> "raise", v |-> exc]
\* the value of a variable the running function has not assigned yet
Unset == [t |-> "unset", v |-> 0]

IsRaise(x) == x.t = "raise"

-----------------------------------------------------------------------------
(* Python strings *)

UpperCase == <<"A","B","C","D","E","F","G","H","I","J","K","L","M",
               "N","O","P","Q","R","S","T","U","V","W","X","Y","Z">>
LowerCase == <<"a","b","c","d","e","f","g","h","i","j","k","l","m",
               "n","o","p","q","r","s","t","u","v","w","x","y","z">>
Digits == <<"0","1","2","3","4","5","6","7","8","9">>
Whitespace == {" ", "\t", "\n"}

CharLower(c) ==
    IF \E i \in 1..Len(UpperCase) : UpperCase[i] = c
    THEN LowerCase[CHOOSE i \in 1..Len(UpperCase) : UpperCase[i] = c]
    ELSE c

\* str.lower()
StrLower(s) == [i \in 1..Len(s) |-> CharLower(s[i])]

\* str.strip()
StrStrip(s) ==
    LET keep == {i \in 1..Len(s) : s[i] \notin Whitespace}
    IN IF keep = {} THEN <<>>
       ELSE SubSeq(s, CHOOSE i \in keep : \A j \in keep : i <= j,
                      CHOOSE i \in keep : \A j \in keep : j <= i)

\* str.startswith(prefix)
StartsWith(s, prefix) ==
    Len(s) >= Len(prefix) /\ SubSeq(s, 1, Len(prefix)) = prefix

\* s[n:]
SliceFrom(s, n) == SubSeq(s, n + 1, Len(s))

IsDigit(c) == \E i \in 1..Len(Digits) : Digits[i] = c
DigitVal(c) == (CHOOSE i \in 1..Len(Digits) : Digits[i] = c) - 1

RECURSIVE DigitsToNat(_)
DigitsToNat(s) ==
    IF s = <<>> THEN 0
    ELSE 10 * DigitsToNat(SubSeq(s, 1, Len(s) - 1)) + DigitVal(s[Len(s)])

RECURSIVE NatToStr(_)
NatToStr(n) ==
    IF n < 10 THEN <<Digits[n + 1]>>
    ELSE NatToStr(n \div 10) \o <<Digits[(n % 10) + 1]>>

\* str(n) of an int, and the {i} of an f-string
IntToStr(n) == IF n < 0 THEN <<"-">> \o NatToStr(-n) ELSE NatToStr(n)

Abs(n) == IF n < 0 THEN -n ELSE n

\* str(x) of a finite float held in halves
FloatToStr(h) ==
    (IF h < 0 THEN <<"-">> ELSE <<>>) \o NatToStr(Abs(h) \div 2)
        \o <<".">> \o (IF Abs(h) % 2 = 0 THEN <<"0">> ELSE <<"5">>)

\* str(val); a list never gets here (safe_get's `val in NULL` raises first)
PyStrOf(val) ==
    CASE val.t = "none" -> <<"N","o","n","e">>
      [] val.t = "bool" -> IF val.v THEN <<"T","r","u","e">>
                                    ELSE <<"F","a","l","s","e">>
      [] val.t = "int" -> IntToStr(val.v)
      [] val.t = "float" -> FloatToStr(val.v)
      [] val.t = "inf" -> <<"i","n","f">>
      [] val.t = "nan" -> <<"n","a","n">>
      [] val.t = "str" -> val.v

\* int(s) of a string: surrounding whitespace, an optional sign, digits
IntOfStr(s) ==
    LET t == StrStrip(s)
        signed == t /= <<>> /\ t[1] \in {"+", "-"}
        body == IF signed THEN SliceFrom(t, 1) ELSE t
    IN IF body /= <<>> /\ \A i \in 1..Len(body) : IsDigit(body[i])
       THEN PyInt(IF signed /\ t[1] = "-" THEN -DigitsToNat(body)
                                          ELSE DigitsToNat(body))
       ELSE Raise("ValueError")

\* int(val)
PyIntOf(val) ==
    CASE val.t = "int" -> val
      [] val.t = "bool" -> PyInt(IF val.v THEN 1 ELSE 0)
      [] val.t = "float" ->
            PyInt(IF val.v < 0 THEN -(Abs(val.v) \div 2) ELSE val.v \div 2)
      [] val.t = "inf" -> Raise("OverflowError")
      [] val.t = "nan" -> Raise("ValueError")
      [] val.t = "str" -> IntOfStr(val.v)
      [] OTHER -> Raise("TypeError")

\* the cast functions a caller passes: int (the default), str, and functions
\* that throw on every input
ApplyCast(fn, val) ==
    CASE fn = "int" -> PyIntOf(val)
      [] fn = "str" -> PyStr(PyStrOf(val))
      [] fn = "raise ValueError" -> Raise("ValueError")
      [] fn = "raise KeyError" -> Raise("KeyError")

\* hash(val) fails for a list
Unhashable(val) == val.t = "list"

\* comorbidities.py / forta.py: NULL = {None, 'NaN', '', ' '}
NULL == {PyNone, PyStr(<<"N","a","N">>), PyStr(<<>>), PyStr(<<" ">>)}

\* sample.get(k, default)
DictGet(d, k, default) == IF k \in DOMAIN d THEN d[k] ELSE default

EmptyDict == [x \in {} |-> PyNone]

\* comorbidities.py safe_get
safe_get(s, k, snt, fn) ==
    LET val == DictGet(s, k, snt)
    IN IF Unhashable(val) THEN Raise("TypeError")
       ELSE IF val \in NULL THEN snt
       ELSE LET val_str == StrLower(StrStrip(PyStrOf(val)))
            IN IF val_str = <<"t","r","u","e">> THEN PyBool(TRUE)
               ELSE IF val_str = <<"f","a","l","s","e">> THEN PyBool(FALSE)
               ELSE LET r == ApplyCast(fn, val)
                    IN IF IsRaise(r) /\ r.v \in {"ValueError", "TypeError"}
                       THEN snt
                       ELSE r

-----------------------------------------------------------------------------
(* comorbidities.py: get_comorbidities, multimorbidity_to_dict *)

Elements(seq) == {seq[i] : i \in DOMAIN seq}

\* a returned tuple of strings
PyTuple(seq) == [t |-> "tuple", v |-> seq]

\* Python ==: bool, int and float compare by value, nan equals nothing
IsNumber(x) == x.t \in {"bool", "int", "float"}
Halves(x) ==
    CASE x.t = "bool" -> IF x.v THEN 2 ELSE 0
      [] x.t = "int" -> 2 * x.v
      [] x.t = "float" -> x.v

PyEq(a, b) ==
    IF IsNumber(a) /\ IsNumber(b) THEN Halves(a) = Halves(b)
    ELSE IF a.t = "nan" \/ b.t = "nan" THEN FALSE
    ELSE a.t = b.t /\ a.v = b.v

\* x in lst, lst a JSON list
PyIn(x, lst) == \E i \in DOMAIN lst : PyEq(lst[i], x)

\* 'V. a. '
VaPrefix == <<"V", ".", " ", "a", ".", " ">>

\* line 70: diagnosis.startswith("V. a. ") and diagnosis[6:] in comorbidities
SkipOffByOne(diagnosis, acc) ==
    StartsWith(diagnosis, VaPrefix) /\ SliceFrom(diagnosis, 5) \in Elements(acc)
SkipSuspected(diagnosis, acc) ==
    StartsWith(diagnosis, VaPrefix) /\ SliceFrom(diagnosis, 6) \in Elements(acc)

\* line 76: all(safe_get(sample_data, key) in value for key, value in
\* condition.items()), left to right, stopping at the first False; an
\* exception of safe_get leaves the generator
RECURSIVE AllCriteria(_, _, _)
AllCriteria(sample_data, condition, j) ==
    IF j > Len(condition) THEN PyBool(TRUE)
    ELSE LET got == safe_get(sample_data, condition[j][1], PyNone, "int")
         IN IF IsRaise(got) THEN got
            ELSE IF PyIn(got, condition[j][2])
                 THEN AllCriteria(sample_data, condition, j + 1)
                 ELSE PyBool(FALSE)

RECURSIVE AnyCriteria(_, _, _)
AnyCriteria(sample_data, condition, j) ==
    IF j > Len(condition) THEN PyBool(FALSE)
    ELSE LET got == safe_get(sample_data, condition[j][1], PyNone, "int")
         IN IF IsRaise(got) THEN got
            ELSE IF PyIn(got, condition[j][2])
                 THEN PyBool(TRUE)
                 ELSE AnyCriteria(sample_data, condition, j + 1)

ConditionMetAny(sample_data, condition) == AnyCriteria(sample_data, condition, 1)
ConditionMet(sample_data, condition) == AllCriteria(sample_data, condition, 1)

\* lines 73-78: for condition in logic: if all(...): append; break
RECURSIVE ConditionLoop(_, _, _)
ConditionLoop(sample_data, logic, k) ==
    IF k > Len(logic) THEN PyBool(FALSE)
    ELSE LET met == ConditionMet(sample_data, logic[k])
         IN IF IsRaise(met) THEN met
            ELSE IF met.v THEN PyBool(TRUE)
            ELSE ConditionLoop(sample_data, logic, k + 1)

\* lines 67-80: for diagnosis, logic in comorbidity_mapping.items()
RECURSIVE DiagnosisLoop(_, _, _, _)
DiagnosisLoop(sample_data, mapping, i, acc) ==
    IF i > Len(mapping) THEN PyTuple(acc)
    ELSE LET diagnosis == mapping[i][1]
             logic == mapping[i][2]
         IN IF SkipSuspected(diagnosis, acc)
            THEN DiagnosisLoop(sample_data, mapping, i + 1, acc)
            ELSE LET hit == ConditionLoop(sample_data, logic, 1)
                 IN IF IsRaise(hit) THEN hit
                    ELSE DiagnosisLoop(sample_data, mapping, i + 1,
                            IF hit.v THEN Append(acc, diagnosis) ELSE acc)

\* get_comorbidities; the mapping load_comorbidity_mapping() returns is the
\* ordered list of the JSON object's (label, logic) items
get_comorbidities(sample_data, mapping) ==
    DiagnosisLoop(sample_data, mapping, 1, <<>>)

\* d[k] = val
DictSet(d, k, val) ==
    [x \in DOMAIN d \cup {k} |-> IF x = k THEN val ELSE d[x]]

MultimorbidityPrefix ==
    <<"m","u","l","t","i","m","o","r","b","i","d","i","t","y","_">>

\* f'multimorbidity_{n}'
MultimorbidityKey(n) == MultimorbidityPrefix \o IntToStr(n)

\* lines 100-105: for i in range(max_number)
RECURSIVE MultimorbidityLoop(_, _, _, _)
MultimorbidityLoop(labels, n, i, d) ==
    IF i >= n THEN d
    ELSE MultimorbidityLoop(labels, n, i + 1,
            DictSet(d, MultimorbidityKey(i + 1),
                    IF i < Len(labels) THEN PyStr(labels[i + 1]) ELSE PyNone))

Min(a, b) == IF a < b THEN a ELSE b

multimorbidity_to_dict_unpadded(labels, n) ==
    MultimorbidityLoop(labels, Min(n, Len(labels)), 0, EmptyDict)
multimorbidity_to_dict(labels, n) ==
    MultimorbidityLoop(labels, n, 0, EmptyDict)

\* multimorbidity_to_dict's default max_number
DefaultMaxNumber == 20

-----------------------------------------------------------------------------
(* safe_get called on its own: one record field, any sentinel, any cast *)

K == <<"k">>

StoredValues ==
    { PyNone, PyStr(<<"N","a","N">>), PyStr(<<>>), PyStr(<<" ">>),
      PyStr(<<"t","r","u","e">>), PyStr(<<" ","T","r","u","e">>),
      PyStr(<<"F","A","L","S","E">>), PyStr(<<"5">>),
      PyStr(<<" ","-","1","2"," ">>), PyStr(<<"5",".","0">>),
      PyStr(<<"a","b","c">>), PyInt(0), PyInt(5),
      PyBool(TRUE), PyBool(FALSE), PyFloat(5), PyFloat(-1),
      PyInf, PyNan, PyList(<<>>) }

Sentinels ==
    { PyNone, PyStr(<<"N","a","N">>), PyStr(<<"5">>),
      PyStr(<<"t","r","u","e">>), PyStr(<<"x">>), PyInt(-1), PyList(<<>>) }

Casts == {"int", "str", "raise ValueError", "raise KeyError"}

InitSafeGet ==
    /\ pc = "start"
    /\ sample \in {EmptyDict} \cup {[x \in {K} |-> val] : val \in StoredValues}
    /\ key = K
    /\ sentinel \in Sentinels
    /\ cast \in Casts
    /\ ret = Unset
    /\ comorbidity_mapping = Unset /\ comorbidities = Unset
    /\ max_number = Unset /\ comorbidity_dict = Unset
    /\ forta_mapping = Unset /\ forta_indications = Unset
    /\ forta_database = Unset /\ medication = Unset
    /\ forta_exact = Unset /\ forta_complete = Unset

SafeGet ==
    /\ pc = "start"
    /\ ret' = safe_get(sample, key, sentinel, cast)
    /\ pc' = "done"
    /\ UNCHANGED <<sample, key, sentinel, cast, comorbidity_mapping,
                   comorbidities, max_number, comorbidity_dict, forta_mapping,
                   forta_indications, forta_database, medication, forta_exact,
                   forta_complete>>

NextSafeGet == SafeGet

SpecSafeGet == InitSafeGet /\ [][NextSafeGet]_vars

\* C2: safe_get never raises, whatever the record, the stored value, the
\* sentinel and the cast function (throwing ones included): every failure
\* path returns the sentinel.
C2_SafeGetNeverRaises == pc = "done" => ~IsRaise(ret)

\* C7: when the key is absent from the record or the stored value is in the
\* missing set, safe_get returns the sentinel itself, unchanged, for every
\* sentinel and cast.
C7_MissingReturnsSentinel ==
    (pc = "done" /\ (key \notin DOMAIN sample \/ sample[key] \in NULL))
        => ret = sentinel

-----------------------------------------------------------------------------
(* get_comorbidities and get_comorbidity_dict on a record and a rule table *)

\* a record field that is not in the record
Absent == [t |-> "absent", v |-> 0]

\* the record holding the fields of `fields` that are not Absent
MkDict(fields) ==
    [k \in {f \in DOMAIN fields : fields[f] /= Absent} |-> fields[k]]

FieldAsa == <<"a","s","a">>
FieldDm == <<"d","m">>

LabelX == <<"X">>
LabelY == <<"Y">>
Labels == {LabelX, VaPrefix \o LabelX, LabelY, VaPrefix \o LabelY}

\* the largest number of labels in a rule table
MaxTableLen == 3

LogicChoices ==
    { <<>>,
      << << <<FieldAsa, <<PyInt(1)>> >> >> >>,
      << << <<FieldAsa, <<>> >> >>,
         << <<FieldDm, <<PyInt(0)>> >>, <<FieldAsa, <<PyInt(1), PyNone>> >> >> >>,
      << << <<FieldDm, <<PyInt(1), PyInt(2)>> >> >> >> }

RuleTables ==
    { m \in UNION {[1..n -> Labels \X LogicChoices] : n \in 0..MaxTableLen} :
        \A i, j \in DOMAIN m : i /= j => m[i][1] /= m[j][1] }

ComorbiditySamples ==
    { MkDict(f) : f \in
        { g \in [{FieldAsa, FieldDm} -> {Absent, PyNone, PyInt(0), PyInt(1),
                    PyStr(<<"1">>), PyStr(<<"t","r","u","e">>), PyInf}] :
            /\ g[FieldAsa] \notin {PyInt(0), PyStr(<<"1">>)}
            /\ g[FieldDm] \in {Absent, PyInt(0), PyStr(<<"1">>)} } }

InitComorbidities ==
    /\ pc = "start"
    /\ sample \in ComorbiditySamples
    /\ comorbidity_mapping \in RuleTables
    /\ comorbidities = Unset /\ max_number = Unset /\ comorbidity_dict = Unset
    /\ key = Unset /\ sentinel = Unset /\ cast = Unset /\ ret = Unset
    /\ forta_mapping = Unset /\ forta_indications = Unset
    /\ forta_database = Unset /\ medication = Unset
    /\ forta_exact = Unset /\ forta_complete = Unset

\* a call of get_comorbidities(sample)
GetComorbidities ==
    /\ pc = "start"
    /\ comorbidities' = get_comorbidities(sample, comorbidity_mapping)
    /\ pc' = IF IsRaise(comorbidities') THEN "raised" ELSE "done"
    /\ UNCHANGED <<sample, key, sentinel, cast, ret, comorbidity_mapping,
                   max_number, comorbidity_dict, forta_mapping,
                   forta_indications, forta_database, medication, forta_exact,
                   forta_complete>>

\* a call of get_comorbidity_dict(sample): get_comorbidities, then
\* multimorbidity_to_dict with the default max_number
GetComorbidityDict ==
    /\ pc = "start"
    /\ comorbidities' = get_comorbidities(sample, comorbidity_mapping)
    /\ IF IsRaise(comorbidities')
       THEN pc' = "raised" /\ UNCHANGED <<max_number, comorbidity_dict>>
       ELSE /\ max_number' = DefaultMaxNumber
            /\ comorbidity_dict' =
                    multimorbidity_to_dict(comorbidities'.v, max_number')
            /\ pc' = "done"
    /\ UNCHANGED <<sample, key, sentinel, cast, ret, comorbidity_mapping,
                   forta_mapping, forta_indications, forta_database,
                   medication, forta_exact, forta_complete>>

NextComorbidities == GetComorbidities \/ GetComorbidityDict

SpecComorbidities == InitComorbidities /\ [][NextComorbidities]_vars

TableKeys == [i \in DOMAIN comorbidity_mapping |-> comorbidity_mapping[i][1]]
Returned == comorbidities.t = "tuple"

\* C1 as stated: whichever way round the table lists 'V. a. X' and 'X', the
\* returned sequence never holds both.
C1_NeverBothEitherOrder ==
    Returned =>
        \A x \in Elements(comorbidities.v) :
            VaPrefix \o x \notin Elements(comorbidities.v)

\* C1 amended: when the table lists 'X' before 'V. a. X', the returned
\* sequence never holds both.
C1_NeverBothWhenConfirmedFirst ==
    Returned =>
        \A i, j \in DOMAIN TableKeys :
            (i < j /\ TableKeys[j] = VaPrefix \o TableKeys[i])
                => ~({TableKeys[i], TableKeys[j]} \subseteq Elements(comorbidities.v))

\* some condition set of the i-th label has every pair satisfied
Matches(i) ==
    \E k \in DOMAIN comorbidity_mapping[i][2] :
        \A p \in DOMAIN comorbidity_mapping[i][2][k] :
            PyIn(safe_get(sample, comorbidity_mapping[i][2][k][p][1], PyNone, "int"),
                 comorbidity_mapping[i][2][k][p][2])

\* the i-th label is a suspected label whose confirmed form was appended
\* before it
Suppressed(i) ==
    /\ StartsWith(TableKeys[i], VaPrefix)
    /\ \E h \in 1..(i - 1) :
        /\ TableKeys[h] = SliceFrom(TableKeys[i], Len(VaPrefix))
        /\ TableKeys[h] \in Elements(comorbidities.v)

C1_Witness ==
    /\ Returned
    /\ \E i, j \in DOMAIN TableKeys :
        /\ i < j /\ TableKeys[j] = VaPrefix \o TableKeys[i]
        /\ Matches(j)
        /\ TableKeys[i] \in Elements(comorbidities.v)
        /\ TableKeys[j] \notin Elements(comorbidities.v)

\* C9: the returned sequence is the table's keys, in table order, each at
\* most once, restricted to the labels that are not suppressed and have a
\* satisfied condition set; a label with no condition set, or with an empty
\* accepted-values list in every condition set, is never returned.
C9_ResultCharacterised ==
    Returned =>
        /\ comorbidities.v =
              SelectSeq(TableKeys, LAMBDA l : l \in Elements(comorbidities.v))
        /\ \A i \in DOMAIN TableKeys :
              TableKeys[i] \in Elements(comorbidities.v)
                  <=> (~Suppressed(i) /\ Matches(i))
        /\ \A i \in DOMAIN TableKeys :
              (\A k \in DOMAIN comorbidity_mapping[i][2] :
                  \E p \in DOMAIN comorbidity_mapping[i][2][k] :
                      comorbidity_mapping[i][2][k][p][2] = <<>>)
                  => TableKeys[i] \notin Elements(comorbidities.v)

C9_Witness ==
    /\ Returned
    /\ \E i \in DOMAIN TableKeys : Suppressed(i) /\ Matches(i)
    /\ \E i \in DOMAIN TableKeys :
          /\ comorbidity_mapping[i][2] /= <<>>
          /\ ~Matches(i)

-----------------------------------------------------------------------------
(* multimorbidity_to_dict on any label sequence and any max_number >= 0 *)

\* the longest comorbidity sequence passed in, and the largest max_number
MaxSeqLen == 3
MaxNumber == 4

LabelSeqs == UNION {[1..n -> {LabelX, VaPrefix \o LabelX, LabelY}] : n \in 0..MaxSeqLen}

InitEncode ==
    /\ pc = "start"
    /\ comorbidities \in {PyTuple(c) : c \in LabelSeqs}
    /\ max_number \in 0..MaxNumber
    /\ comorbidity_dict = Unset
    /\ sample = Unset /\ comorbidity_mapping = Unset
    /\ key = Unset /\ sentinel = Unset /\ cast = Unset /\ ret = Unset
    /\ forta_mapping = Unset /\ forta_indications = Unset
    /\ forta_database = Unset /\ medication = Unset
    /\ forta_exact = Unset /\ forta_complete = Unset

\* a call of multimorbidity_to_dict(comorbidities, max_number)
MultimorbidityToDict ==
    /\ pc = "start"
    /\ comorbidity_dict' = multimorbidity_to_dict(comorbidities.v, max_number)
    /\ pc' = "done"
    /\ UNCHANGED <<sample, key, sentinel, cast, ret, comorbidity_mapping,
                   comorbidities, max_number, forta_mapping,
                   forta_indications, forta_database, medication, forta_exact,
                   forta_complete>>

NextEncode == MultimorbidityToDict

SpecEncode == InitEncode /\ [][NextEncode]_vars

\* C5: the mapping has exactly the max_number keys multimorbidity_1 ..
\* multimorbidity_<max_number>; slot i holds comorbidities[i-1] when
\* i <= len(comorbidities) and None otherwise; labels beyond max_number are
\* dropped.
C5_FixedWidth ==
    pc = "done" =>
        /\ DOMAIN comorbidity_dict = {MultimorbidityKey(i) : i \in 1..max_number}
        /\ Cardinality(DOMAIN comorbidity_dict) = max_number
        /\ \A i \in 1..max_number :
              comorbidity_dict[MultimorbidityKey(i)] =
                  IF i <= Len(comorbidities.v) THEN PyStr(comorbidities.v[i])
                                              ELSE PyNone
        /\ \A k \in DOMAIN comorbidity_dict :
              comorbidity_dict[k] /= PyNone
                  => \E i \in 1..Min(max_number, Len(comorbidities.v)) :
                        comorbidity_dict[k] = PyStr(comorbidities.v[i])

\* a sequence longer than max_number > 0 is cut
C5_Witness ==
    pc = "done" /\ Len(comorbidities.v) > max_number /\ max_number > 0

-----------------------------------------------------------------------------
(* forta.py *)

\* a returned set of strings, and a returned DataFrame (its rows in order)
PySet(elems) == [t |-> "set", v |-> elems]
PyFrame(rows) == [t |-> "frame", v |-> rows]
\* a JSON object in a mapping file: its (key, value) items in order
PyDict(items) == [t |-> "dict", v |-> items]

\* bool(val)
Truthy(val) ==
    CASE val.t = "none" -> FALSE
      [] val.t = "bool" -> val.v
      [] val.t \in {"int", "float"} -> val.v /= 0
      [] val.t \in {"str", "list"} -> val.v /= <<>>
      [] OTHER -> TRUE

\* range(1, 21)
MedicationSlots == 20

MedicationPrefix == <<"m","e","d","i","c","a","t","i","o","n","_","p","r","e","o","p","_">>

\* f'medication_preop_{i}'
MedicationKey(i) == MedicationPrefix \o IntToStr(i)

\* lines 60-62: sample[...] raises KeyError for a key the record lacks
RECURSIVE MedicationLoop(_, _, _)
MedicationLoop(s, i, acc) ==
    IF i > MedicationSlots THEN PyList(acc)
    ELSE IF MedicationKey(i) \notin DOMAIN s THEN Raise("KeyError")
    ELSE LET val == s[MedicationKey(i)]
         IN IF ~Truthy(val) THEN MedicationLoop(s, i + 1, acc)
            ELSE IF Unhashable(val) THEN Raise("TypeError")
            ELSE MedicationLoop(s, i + 1,
                    IF val \notin NULL THEN Append(acc, val) ELSE acc)

\* get_medication
get_medication(s) == MedicationLoop(s, 1, <<>>)

\* a >= n and a < n for a number n: None, a string or a list against an int
\* is a TypeError, nan compares False both ways
PyGe(a, n) ==
    CASE IsNumber(a) -> PyBool(Halves(a) >= 2 * n)
      [] a.t = "inf" -> PyBool(TRUE)
      [] a.t = "nan" -> PyBool(FALSE)
      [] OTHER -> Raise("TypeError")
PyLt(a, n) ==
    CASE IsNumber(a) -> PyBool(Halves(a) < 2 * n)
      [] a.t = "inf" -> PyBool(FALSE)
      [] a.t = "nan" -> PyBool(FALSE)
      [] OTHER -> Raise("TypeError")

KeySex == <<"s","e","x">>
KeyEgfr == <<"l","a","b","_","p","r","e","o","p","_","e","g","f","r">>
KeyAge == <<"a","d","m","_","a","g","e">>
KeyMedication == <<"m","e","d","i","c","a","t","i","o","n">>

Depression == <<"D","e","p","r","e","s","s","i","o","n">>
Schlafstoerung == <<"S","c","h","l","a","f","s","t","ö","r","u","n","g">>
ArterielleHypertonie == <<"A","r","t","e","r","i","e","l","l","e"," ","H","y","p","e","r","t","o","n","i","e">>
Pneumonie == <<"P","n","e","u","m","o","n","i","e">>

HasDepression == <<"h","a","s","_","d","e","p","r","e","s","s","i","o","n">>
HasInsomnia == <<"h","a","s","_","i","n","s","o","m","n","i","a">>
IsWoman == <<"i","s","_","w","o","m","a","n">>
HasRenalFailure == <<"h","a","s","_","r","e","n","a","l","_","f","a","i","l","u","r","e">>
HasNoRenalFailure == <<"h","a","s","_","n","o","_","r","e","n","a","l","_","f","a","i","l","u","r","e">>
IsOld == <<"i","s","_","o","l","d">>
IsNotOld == <<"i","s","_","n","o","t","_","o","l","d">>
NoHypertension == <<"n","o","_","h","y","p","e","r","t","e","n","s","i","o","n">>
HasPneumonia == <<"h","a","s","_","p","n","e","u","m","o","n","i","a">>

\* forta_condition_check: condition_map.get(condition_key, lambda s, c: True)
\* applied to (sample, comorbidities); c is the tuple's sequence of labels
forta_condition_check_closed(condition_key, s, c) ==
    CASE condition_key = HasDepression -> PyBool(Depression \in Elements(c))
      [] condition_key = HasInsomnia -> PyBool(Schlafstoerung \in Elements(c))
      [] condition_key = IsWoman -> PyBool(PyEq(DictGet(s, KeySex, PyInt(1)), PyInt(0)))
      [] condition_key = HasRenalFailure -> PyLt(DictGet(s, KeyEgfr, PyInt(120)), 30)
      [] condition_key = HasNoRenalFailure -> PyGe(DictGet(s, KeyEgfr, PyInt(120)), 30)
      [] condition_key = IsOld -> PyGe(DictGet(s, KeyAge, PyInt(70)), 85)
      [] condition_key = IsNotOld -> PyLt(DictGet(s, KeyAge, PyInt(70)), 85)
      [] condition_key = NoHypertension -> PyBool(ArterielleHypertonie \notin Elements(c))
      [] condition_key = HasPneumonia -> PyBool(Pneumonie \in Elements(c))
      [] OTHER -> PyBool(FALSE)
forta_condition_check(condition_key, s, c) ==
    CASE condition_key = HasDepression -> PyBool(Depression \in Elements(c))
      [] condition_key = HasInsomnia -> PyBool(Schlafstoerung \in Elements(c))
      [] condition_key = IsWoman -> PyBool(PyEq(DictGet(s, KeySex, PyInt(1)), PyInt(0)))
      [] condition_key = HasRenalFailure -> PyLt(DictGet(s, KeyEgfr, PyInt(120)), 30)
      [] condition_key = HasNoRenalFailure -> PyGe(DictGet(s, KeyEgfr, PyInt(120)), 30)
      [] condition_key = IsOld -> PyGe(DictGet(s, KeyAge, PyInt(70)), 85)
      [] condition_key = IsNotOld -> PyLt(DictGet(s, KeyAge, PyInt(70)), 85)
      [] condition_key = NoHypertension -> PyBool(ArterielleHypertonie \notin Elements(c))
      [] condition_key = HasPneumonia -> PyBool(Pneumonie \in Elements(c))
      [] OTHER -> PyBool(TRUE)

\* lines 118-119: diagnosis[6:] if diagnosis.startswith('V. a. ') else diagnosis
NormalizeDiagnosis(diagnosis) ==
    IF StartsWith(diagnosis, VaPrefix) THEN SliceFrom(diagnosis, 6) ELSE diagnosis

\* lines 131-133: for condition_key, indication in entry.items()
RECURSIVE ItemLoop(_, _, _, _, _)
ItemLoop(s, c, items, n, acc) ==
    IF n > Len(items) THEN PySet(acc)
    ELSE LET ok == forta_condition_check(items[n][1], s, c)
         IN IF IsRaise(ok) THEN ok
            ELSE ItemLoop(s, c, items, n + 1,
                    IF ok.v THEN acc \cup {items[n][2]} ELSE acc)

\* lines 125-133: for entry in forta_mapping[diagnosis]
RECURSIVE EntryLoop(_, _, _, _, _)
EntryLoop(s, c, entries, k, acc) ==
    IF k > Len(entries) THEN PySet(acc)
    ELSE IF entries[k].t = "str"
         THEN EntryLoop(s, c, entries, k + 1, acc \cup {entries[k].v})
    ELSE IF entries[k].t = "dict"
         THEN LET got == ItemLoop(s, c, entries[k].v, 1, acc)
              IN IF IsRaise(got) THEN got
                 ELSE EntryLoop(s, c, entries, k + 1, got.v)
    ELSE EntryLoop(s, c, entries, k + 1, acc)

\* lines 116-133: for diagnosis in comorbidities
RECURSIVE IndicationLoop(_, _, _, _, _)
IndicationLoop(s, c, mapping, i, acc) ==
    IF i > Len(c) THEN PySet(acc)
    ELSE LET diagnosis == NormalizeDiagnosis(c[i])
         IN IF diagnosis \notin DOMAIN mapping
            THEN IndicationLoop(s, c, mapping, i + 1, acc)
            ELSE LET got == EntryLoop(s, c, mapping[diagnosis], 1, acc)
                 IN IF IsRaise(got) THEN got
                    ELSE IndicationLoop(s, c, mapping, i + 1, got.v)

\* get_forta_indications; mapping is what load_forta_mapping() returns
get_forta_indications(s, c, mapping) == IndicationLoop(s, c, mapping, 1, {})

\* the characters of the model's strings in code point order
Alphabet ==
    <<" ", ",", "-", ".">> \o Digits \o UpperCase \o <<"_">> \o LowerCase
        \o <<"ö", "ü">>
CharCode(ch) == CHOOSE i \in 1..Len(Alphabet) : Alphabet[i] = ch

\* a < b on strings
RECURSIVE StrLess(_, _)
StrLess(a, b) ==
    IF b = <<>> THEN FALSE
    ELSE IF a = <<>> THEN TRUE
    ELSE IF a[1] /= b[1] THEN CharCode(a[1]) < CharCode(b[1])
    ELSE StrLess(Tail(a), Tail(b))

\* sort_values(by=['Wirkstoff', 'FORTA'], ascending=[True, False])
RowBefore(a, b) ==
    \/ StrLess(a.Wirkstoff, b.Wirkstoff)
    \/ a.Wirkstoff = b.Wirkstoff /\ StrLess(b.FORTA, a.FORTA)

\* the sort is stable: a row goes behind the rows it does not precede
InsertRow(sorted, row) ==
    LET later == {i \in 1..Len(sorted) : RowBefore(row, sorted[i])}
        at == IF later = {} THEN Len(sorted) + 1
              ELSE CHOOSE i \in later : \A j \in later : i <= j
    IN SubSeq(sorted, 1, at - 1) \o <<row>> \o SubSeq(sorted, at, Len(sorted))

RECURSIVE SortRows(_)
SortRows(rows) ==
    IF rows = <<>> THEN <<>>
    ELSE InsertRow(SortRows(SubSeq(rows, 1, Len(rows) - 1)), rows[Len(rows)])

\* lines 154-157: the rows whose substance is in medication and whose
\* indication is in forta_indications
RowSelected(row, meds, indications) ==
    /\ PyStr(row.Wirkstoff) \in Elements(meds)
    /\ row.Indikation \in indications

\* make_forta_df; database is what load_forta_database() returns
make_forta_df(meds, indications, database) ==
    PyFrame(SortRows(SelectSeq(database,
                LAMBDA row : RowSelected(row, meds, indications))))

\* sorted(...) of a set of strings
RECURSIVE SortedStrs(_)
SortedStrs(strs) ==
    IF strs = {} THEN <<>>
    ELSE LET least == CHOOSE x \in strs : \A y \in strs : ~StrLess(y, x)
         IN <<least>> \o SortedStrs(strs \ {least})

\* ', '.join(strs)
RECURSIVE JoinComma(_)
JoinComma(strs) ==
    IF strs = <<>> THEN <<>>
    ELSE IF Len(strs) = 1 THEN strs[1]
    ELSE strs[1] \o <<",", " ">> \o JoinComma(Tail(strs))

IndikationPruefen == <<"I","n","d","i","k","a","t","i","o","n"," ","g","g","f","."," ","p","r","ü","f","e","n">>

\* lines 185-189
SummaryRow(missing_medication_string) ==
    [Wirkstoff |-> missing_medication_string,
     Indikation |-> IndikationPruefen,
     FORTA |-> <<"-">>]

\* line 181: set(medication) - set(forta_exact['Wirkstoff'])
MissingMedication(exact, meds) ==
    {m.v : m \in Elements(meds)} \ {exact[i].Wirkstoff : i \in DOMAIN exact}

add_remaining_med_when_any(exact, meds) ==
    IF MissingMedication(exact, meds) = {} THEN PyFrame(exact)
    ELSE PyFrame(Append(exact,
            SummaryRow(JoinComma(SortedStrs(MissingMedication(exact, meds))))))
\* add_remaining_med, for a list of strings as medication
add_remaining_med(exact, meds) ==
    PyFrame(Append(exact,
        SummaryRow(JoinComma(SortedStrs(MissingMedication(exact, meds))))))

-----------------------------------------------------------------------------
(* forta_condition_check and get_forta_indications on a record, a tuple of
   comorbidities and an indication table *)

Ind1 == <<"H","y","p","e","r","t","o","n","i","e">>
Ind2 == <<"D","e","p","r","e","s","s","i","o","n">>
Ind3 == <<"D","e","m","e","n","z">>
Ind4 == <<"P","n","e","u","m","o","n","i","e">>
UnknownKey == <<"i","s","_","f","r","a","i","l">>

\* the function with the given (key, value) pairs
DictOf(pairs) ==
    [k \in {pairs[i][1] : i \in DOMAIN pairs} |->
        pairs[CHOOSE i \in DOMAIN pairs : pairs[i][1] = k][2]]

FortaMappings ==
    { EmptyDict,
      DictOf(<< <<Depression,
                  <<PyStr(Ind2), PyDict(<< <<IsOld, Ind3>>, <<IsNotOld, Ind1>> >>)>> >>,
                <<Pneumonie,
                  <<PyDict(<< <<HasRenalFailure, Ind4>>,
                              <<HasNoRenalFailure, Ind1>> >>)>> >> >>),
      DictOf(<< <<Depression,
                  <<PyDict(<< <<IsWoman, Ind3>>, <<UnknownKey, Ind1>> >>),
                    PyInt(7)>> >>,
                <<ArterielleHypertonie,
                  <<PyDict(<< <<NoHypertension, Ind4>>,
                              <<HasPneumonia, Ind2>> >>)>> >>,
                <<VaPrefix \o Pneumonie, <<PyStr(Ind4)>> >> >>),
      DictOf(<< <<Schlafstoerung,
                  <<PyDict(<< <<HasInsomnia, Ind1>>, <<HasDepression, Ind2>> >>),
                    PyDict(<< <<NoHypertension, Ind3>> >>)>> >>,
                <<LabelX, <<>> >> >>) }

ComorbidityTuples ==
    { <<>>,
      <<Depression>>,
      <<VaPrefix \o Depression, Pneumonie>>,
      <<ArterielleHypertonie, Schlafstoerung>>,
      <<LabelX, Depression, VaPrefix \o Depression>>,
      <<VaPrefix \o Schlafstoerung, LabelY>> }

IndicationSamples ==
    { MkDict(f) : f \in
        { g \in [{KeyAge, KeyEgfr, KeySex} ->
                    {Absent, PyNone, PyStr(<<>>), PyStr(<<"N","a","N">>),
                     PyInt(0), PyInt(1), PyInt(29), PyInt(84), PyInt(85),
                     PyFloat(60)}] :
            /\ g[KeyAge] \in {Absent, PyNone, PyStr(<<>>), PyInt(84), PyInt(85)}
            /\ g[KeyEgfr] \in {Absent, PyStr(<<"N","a","N">>), PyInt(29), PyFloat(60)}
            /\ g[KeySex] \in {Absent, PyNone, PyInt(0), PyInt(1)} } }

ConditionKeys ==
    { HasDepression, HasInsomnia, IsWoman, HasRenalFailure, HasNoRenalFailure,
      IsOld, IsNotOld, NoHypertension, HasPneumonia }

InitIndications ==
    /\ pc = "start"
    /\ sample \in IndicationSamples
    /\ comorbidities \in {PyTuple(c) : c \in ComorbidityTuples}
    /\ forta_mapping \in FortaMappings
    /\ key = Unset /\ ret = Unset /\ forta_indications = Unset
    /\ sentinel = Unset /\ cast = Unset
    /\ comorbidity_mapping = Unset /\ max_number = Unset
    /\ comorbidity_dict = Unset /\ forta_database = Unset
    /\ medication = Unset /\ forta_exact = Unset /\ forta_complete = Unset

\* a call of forta_condition_check(condition_key, sample, comorbidities)
FortaConditionCheck ==
    /\ pc = "start"
    /\ \E condition_key \in ConditionKeys \cup {UnknownKey} :
        /\ key' = condition_key
        /\ ret' = forta_condition_check(condition_key, sample, comorbidities.v)
    /\ pc' = "checked"
    /\ UNCHANGED <<sample, sentinel, cast, comorbidity_mapping, comorbidities,
                   max_number, comorbidity_dict, forta_mapping,
                   forta_indications, forta_database, medication, forta_exact,
                   forta_complete>>

\* a call of get_forta_indications(sample, comorbidities)
GetFortaIndications ==
    /\ pc = "start"
    /\ forta_indications' =
            get_forta_indications(sample, comorbidities.v, forta_mapping)
    /\ pc' = IF IsRaise(forta_indications') THEN "raised" ELSE "done"
    /\ UNCHANGED <<sample, key, sentinel, cast, ret, comorbidity_mapping,
                   comorbidities, max_number, comorbidity_dict, forta_mapping,
                   forta_database, medication, forta_exact, forta_complete>>

NextIndications == FortaConditionCheck \/ GetFortaIndications

SpecIndications == InitIndications /\ [][NextIndications]_vars

\* the record field a condition key reads, and the documented value of the
\* predicate when that field is missing
FieldRead(condition_key) ==
    CASE condition_key \in {IsOld, IsNotOld} -> KeyAge
      [] condition_key \in {HasRenalFailure, HasNoRenalFailure} -> KeyEgfr
      [] condition_key = IsWoman -> KeySex
DocumentedDefault(condition_key) ==
    PyBool(condition_key \in {IsNotOld, HasNoRenalFailure})

\* C6: when the field a predicate reads is missing (key absent, or a value of
\* the missing set), forta_condition_check does not raise and gives the
\* default: is_old false, is_not_old true, has_renal_failure false,
\* has_no_renal_failure true, is_woman false.
C6_MissingFieldDefault ==
    (/\ pc = "checked"
     /\ key \in {IsOld, IsNotOld, HasRenalFailure, HasNoRenalFailure, IsWoman}
     /\ (FieldRead(key) \notin DOMAIN sample \/ sample[FieldRead(key)] \in NULL))
        => ret = DocumentedDefault(key)

\* the labels the indication table gives for the comorbidities
ExpectedIndications ==
    { l \in {Ind1, Ind2, Ind3, Ind4} :
        \E i \in DOMAIN comorbidities.v :
            LET d == IF StartsWith(comorbidities.v[i], VaPrefix)
                     THEN SliceFrom(comorbidities.v[i], Len(VaPrefix))
                     ELSE comorbidities.v[i]
            IN /\ d \in DOMAIN forta_mapping
               /\ \E k \in DOMAIN forta_mapping[d] :
                    LET entry == forta_mapping[d][k]
                    IN \/ entry = PyStr(l)
                       \/ /\ entry.t = "dict"
                          /\ \E n \in DOMAIN entry.v :
                                /\ entry.v[n][2] = l
                                /\ \/ entry.v[n][1] \notin ConditionKeys
                                   \/ forta_condition_check(entry.v[n][1], sample,
                                          comorbidities.v) = PyBool(TRUE) }

\* C10: get_forta_indications returns exactly the labels of the plain entries
\* and of the conditional entries whose predicate is true, over the
\* comorbidities (prefix 'V. a. ' stripped) that are keys of the table; a
\* comorbidity that is no key adds nothing, a condition key outside the named
\* set counts as true.
C10_IndicationsCharacterised ==
    (pc = "done" /\ forta_indications.t = "set")
        => forta_indications.v = ExpectedIndications

\* a suspected comorbidity found in the table under its confirmed name, a
\* comorbidity that is no key, a conditional entry left out and an unknown
\* condition key let in
C10_Witness ==
    /\ pc = "done" /\ forta_indications.t = "set"
    /\ \E i \in DOMAIN comorbidities.v :
          /\ StartsWith(comorbidities.v[i], VaPrefix)
          /\ SliceFrom(comorbidities.v[i], Len(VaPrefix)) \in DOMAIN forta_mapping
    /\ \E i \in DOMAIN comorbidities.v :
          comorbidities.v[i] \notin DOMAIN forta_mapping
    /\ Ind1 \in forta_indications.v
    /\ Ind3 \notin forta_indications.v
    /\ \E d \in DOMAIN forta_mapping : \E k \in DOMAIN forta_mapping[d] :
          /\ forta_mapping[d][k].t = "dict"
          /\ \E n \in DOMAIN forta_mapping[d][k].v :
                forta_mapping[d][k].v[n] = <<UnknownKey, Ind1>>

-----------------------------------------------------------------------------
(* get_forta_list on a record, with the three reference tables *)

SubstA == <<"A","S","S">>
SubstB == <<"B","i","s","o","p","r","o","l","o","l">>
SubstC == <<"C","i","t","a","l","o","p","r","a","m">>

\* the number of leading medication_preop fields that vary (the others hold
\* None), and the longest 'medication' list
MaxFilled == 2
MaxListLen == 2

Row(w, i, f) == [Wirkstoff |-> w, Indikation |-> i, FORTA |-> f]

FortaDatabases ==
    { <<>>,
      << Row(SubstB, Ind1, <<"B">>), Row(SubstA, Ind1, <<"A">>),
         Row(SubstA, Ind3, <<"D">>), Row(SubstC, Ind2, <<"C">>) >>,
      << Row(SubstA, Ind2, <<"C">>), Row(SubstA, Ind2, <<"D">>),
         Row(SubstC, Ind3, <<"A">>), Row(SubstB, Ind4, <<"A">>) >> }

\* the rule table and the indication table of the calls below
ListRuleTable ==
    << <<Depression, << << <<FieldAsa, <<PyInt(1)>> >> >> >> >>,
       <<VaPrefix \o Depression, << << <<FieldDm, <<PyInt(1)>> >> >> >> >> >>
ListFortaMapping ==
    DictOf(<< <<Depression,
                <<PyStr(Ind2), PyDict(<< <<IsOld, Ind3>>, <<IsNotOld, Ind1>> >>)>> >> >>)

MedicationLists ==
    UNION {[1..n -> {PyStr(SubstA), PyStr(SubstC)}] : n \in 0..MaxListLen}

SlotValues == {Absent, PyStr(<<" ">>), PyStr(SubstA), PyStr(SubstB)}

\* the fields the rule table and the condition keys read: (asa, dm, adm_age)
ClinicalFields ==
    { <<PyInt(1), Absent, PyInt(85)>>, <<Absent, PyInt(1), PyInt(84)>>,
      <<Absent, Absent, PyNone>>, <<PyInt(1), PyInt(1), PyNone>> }

ListSamples ==
    { MkDict([k \in {FieldAsa, FieldDm, KeyAge, KeyMedication}
                    \cup {MedicationKey(i) : i \in 1..MedicationSlots} |->
                CASE k = FieldAsa -> clinical[1]
                  [] k = FieldDm -> clinical[2]
                  [] k = KeyAge -> clinical[3]
                  [] k = KeyMedication -> meds
                  [] \E i \in 1..MaxFilled : k = MedicationKey(i) ->
                        slots[CHOOSE i \in 1..MaxFilled : k = MedicationKey(i)]
                  [] OTHER -> PyNone]) :
        clinical \in ClinicalFields,
        meds \in {Absent} \cup {PyList(l) : l \in MedicationLists},
        slots \in [1..MaxFilled -> SlotValues] }

InitFortaList ==
    /\ pc = "get_comorbidities"
    /\ sample \in ListSamples
    /\ comorbidity_mapping = ListRuleTable
    /\ forta_mapping = ListFortaMapping
    /\ forta_database \in FortaDatabases
    /\ comorbidities = Unset /\ forta_indications = Unset
    /\ medication = Unset /\ forta_exact = Unset /\ forta_complete = Unset
    /\ key = Unset /\ sentinel = Unset /\ cast = Unset /\ ret = Unset
    /\ max_number = Unset /\ comorbidity_dict = Unset

\* line 218
ListGetComorbidities ==
    /\ pc = "get_comorbidities"
    /\ comorbidities' = get_comorbidities(sample, comorbidity_mapping)
    /\ pc' = IF IsRaise(comorbidities') THEN "raised" ELSE "get_forta_indications"
    /\ UNCHANGED <<sample, key, sentinel, cast, ret, comorbidity_mapping,
                   max_number, comorbidity_dict, forta_mapping,
                   forta_indications, forta_database, medication, forta_exact,
                   forta_complete>>

\* line 221
ListGetFortaIndications ==
    /\ pc = "get_forta_indications"
    /\ forta_indications' =
            get_forta_indications(sample, comorbidities.v, forta_mapping)
    /\ pc' = IF IsRaise(forta_indications') THEN "raised" ELSE "get_medication"
    /\ UNCHANGED <<sample, key, sentinel, cast, ret, comorbidity_mapping,
                   comorbidities, max_number, comorbidity_dict, forta_mapping,
                   forta_database, medication, forta_exact, forta_complete>>

\* line 224
GetMedication ==
    /\ pc = "get_medication"
    /\ medication' = get_medication(sample)
    /\ pc' = IF IsRaise(medication') THEN "raised" ELSE "make_forta_df"
    /\ UNCHANGED <<sample, key, sentinel, cast, ret, comorbidity_mapping,
                   comorbidities, max_number, comorbidity_dict, forta_mapping,
                   forta_indications, forta_database, forta_exact,
                   forta_complete>>

\* line 225
MakeFortaDf ==
    /\ pc = "make_forta_df"
    /\ forta_exact' =
            make_forta_df(medication.v, forta_indications.v, forta_database)
    /\ pc' = "add_remaining_med"
    /\ UNCHANGED <<sample, key, sentinel, cast, ret, comorbidity_mapping,
                   comorbidities, max_number, comorbidity_dict, forta_mapping,
                   forta_indications, forta_database, medication,
                   forta_complete>>

\* line 228: sample['medication'] raises KeyError for a record without it
AddRemainingMed ==
    /\ pc = "add_remaining_med"
    /\ forta_complete' =
            IF KeyMedication \in DOMAIN sample
            THEN add_remaining_med(forta_exact.v, sample[KeyMedication].v)
            ELSE Raise("KeyError")
    /\ pc' = IF IsRaise(forta_complete') THEN "raised" ELSE "done"
    /\ UNCHANGED <<sample, key, sentinel, cast, ret, comorbidity_mapping,
                   comorbidities, max_number, comorbidity_dict, forta_mapping,
                   forta_indications, forta_database, medication, forta_exact>>

NextFortaList ==
    \/ ListGetComorbidities
    \/ ListGetFortaIndications
    \/ GetMedication
    \/ MakeFortaDf
    \/ AddRemainingMed

SpecFortaList == InitFortaList /\ [][NextFortaList]_vars

\* the fields medication_preop_1 .. medication_preop_20 in position order,
\* None standing for a field the record lacks
PositionValues ==
    [i \in 1..MedicationSlots |-> DictGet(sample, MedicationKey(i), PyNone)]

\* C8: get_medication returns, in position order, exactly the values of
\* medication_preop_1..20 that are not missing, duplicates kept; a missing
\* entry (key absent, or a value of the missing set) is skipped and does not
\* make the extraction fail.
C8_MedicationExtracted ==
    medication /= Unset
        => medication = PyList(SelectSeq(PositionValues, LAMBDA val : val \notin NULL))

\* s.split(', ')
RECURSIVE SplitComma(_)
SplitComma(s) ==
    LET cuts == {i \in 1..(Len(s) - 1) : s[i] = "," /\ s[i + 1] = " "}
    IN IF cuts = {} THEN <<s>>
       ELSE LET at == CHOOSE i \in cuts : \A j \in cuts : i <= j
            IN <<SubSeq(s, 1, at - 1)>> \o SplitComma(SubSeq(s, at + 2, Len(s)))

\* the substances a summary row lists
Listed(row) == IF row.Wirkstoff = <<>> THEN <<>> ELSE SplitComma(row.Wirkstoff)

IsSummaryRow(row) == row.Indikation = IndikationPruefen /\ row.FORTA = <<"-">>

LastRow == forta_complete.v[Len(forta_complete.v)]
MatchedSubstances == {forta_exact.v[i].Wirkstoff : i \in DOMAIN forta_exact.v}

\* C3: the summary row of get_forta_list lists exactly the distinct substances
\* of the list that was matched against the reference table (the fields
\* medication_preop_1..20) that have no matched row, each once.
C3_SummaryListsUnmatched ==
    pc = "done" =>
        /\ Elements(Listed(LastRow)) =
              {m.v : m \in Elements(medication.v)} \ MatchedSubstances
        /\ Cardinality(Elements(Listed(LastRow))) = Len(Listed(LastRow))

\* C4: the result holds exactly one summary row, it is the last row, and it
\* is there with an empty substance field when the medication list is empty
\* or every substance of it is matched.
C4_OneSummaryRowLast ==
    pc = "done" =>
        /\ Len(forta_complete.v) = Len(forta_exact.v) + 1
        /\ IsSummaryRow(LastRow)
        /\ Cardinality({i \in DOMAIN forta_complete.v :
                            IsSummaryRow(forta_complete.v[i])}) = 1
        /\ \A i \in DOMAIN forta_exact.v : forta_complete.v[i] = forta_exact.v[i]
        /\ (\A m \in Elements(sample[KeyMedication].v) : m.v \in MatchedSubstances)
              => LastRow.Wirkstoff = <<>>

\* a non-empty medication list with every substance matched
C4_Witness ==
    /\ pc = "done"
    /\ sample[KeyMedication].v /= <<>>
    /\ forta_exact.v /= <<>>
    /\ LastRow.Wirkstoff = <<>>

====
